---- MODULE Spec2Model ----
\* Verification model of the integration test runner (test-integration.js, kept in
\* src/e2e/integration.spec.ts) and of the backend probe set it drives
\* (src/packages/testing/src/api-testing.ts).
EXTENDS Integers, Sequences, FiniteSets, TLC

\* ---------------------------------------------------------------- bounds
\* How many endpoints of one backend scenario may answer otherwise than nominally.
MaxFaults == 1
\* How far the event-loop clock advances in one step (ms).
TickMs == 30000
\* How many requests a tester whose probes are called in any order sends.
MaxRequests == 3
\* How many endpoints may answer otherwise than nominally when the tester is checked
\* on its own.
MaxApiFaults == 2
\* The grain of the durations a polled request may take (ms).
WaitStepMs == 500

\* ------------------------------------------------------- program constants
BackendStartupTimeoutMs == 30000
FrontendStartupTimeoutMs == 60000
\* waitForUrl: its default timeout, the timeout of one polled request, the sleep
\* between two requests.
WaitTimeoutMs == 30000
RequestTimeoutMs == 5000
PollIntervalMs == 1000

\* Readiness markers looked for in the accumulated stdout of the two processes.
BackendMarkers == {"Uvicorn running on"}
FrontendMarkers == {"Ready in", "3000"}

\* ------------------------------------------------------------ JS helpers
\* The empty object literal {}.
EmptyObj == [k \in {} |-> TRUE]

\* Object spread / property assignment: the fields of g laid over those of f.
Assign(f, g) == [k \in (DOMAIN f) \cup (DOMAIN g) |-> IF k \in DOMAIN g THEN g[k] ELSE f[k]]

\* obj.success read as a condition: undefined is falsy.
Truthy(obj, k) == k \in DOMAIN obj /\ obj[k] = TRUE

\* Object.values(results).every(Boolean)
EveryValue(results) == \A k \in DOMAIN results : results[k] = TRUE

\* ------------------------------------------------------- BackendApiTester
Endpoints ==
  {"health", "login", "listApplications", "createApplication", "getApplication",
   "updateApplication", "deleteApplication", "listDeployments", "getInsights",
   "getRecommendations", "graphql"}

\* HTTP statuses a scenario draws from: the two expected ones and one outside 2xx
\* (axios rejects the request promise for it, as it does for a transport error).
Statuses == {200, 201, 500}

\* What a response body carries, as far as a probe reads it: "null" is a body that
\* parses to null, so that reading a property of it raises a TypeError.
Bodies(e) ==
  CASE e = "login" -> {"empty", "token", "null"}
    [] e = "createApplication" -> {"empty", "id", "null"}
    [] e = "graphql" -> {"empty", "errors", "null"}
    [] OTHER -> {"empty"}

Responses(e) == [status : Statuses, body : Bodies(e)]

\* The answer of a healthy backend.
Nominal(e) ==
  CASE e = "login" -> [status |-> 200, body |-> "token"]
    [] e = "createApplication" -> [status |-> 201, body |-> "id"]
    [] OTHER -> [status |-> 200, body |-> "empty"]

\* The backend behaviours in which at most n endpoints answer otherwise than nominally.
ScenariosWith(n) ==
  UNION { { [e \in Endpoints |-> IF e \in F THEN f[e] ELSE Nominal(e)] :
              f \in {g \in [F -> UNION {Responses(e) : e \in F}] :
                        \A e \in F : g[e] \in Responses(e)} }
          : F \in {S \in SUBSET Endpoints : Cardinality(S) <= n} }

\* The backend behaviours a run is checked against.
Scenarios == ScenariosWith(MaxFaults)

\* The backend behaviours the tester is checked against on its own.
ApiScenarios == ScenariosWith(MaxApiFaults)

\* axios' default validateStatus: the request promise rejects outside 2xx.
Throws(r) == r.status < 200 \/ r.status >= 300

\* How a block of code ends: with an exception raised or with a value.
Raised(msg) == [raised |-> TRUE, error |-> msg]
Returned(v) == [raised |-> FALSE, value |-> v]

\* try { ... } catch (error) { ... }: an exception of the try block becomes the value
\* the catch block computes from it.
TryCatch(o, handled) == IF o.raised THEN Returned(handled) ELSE o

\* await this.client.get/post/put/delete(...): the response, or the rejection.
AwaitRequest(r) == IF Throws(r) THEN Raised("request failed") ELSE Returned(r)

\* Reading a property of response.data: a TypeError when the body is null.
ReadBody(r) == IF r.body = "null" THEN Raised("TypeError") ELSE Returned(r.body)

\* The try block of testConnectivity.
ConnectivityTry(b) ==
  LET o == AwaitRequest(b["health"]) IN
  IF o.raised THEN o ELSE Returned(o.value.status = 200)

\* Mutant: testConnectivity without its catch block.
CallTestConnectivity_NoCatch(b) == ConnectivityTry(b)

CallTestConnectivity(b) == TryCatch(ConnectivityTry(b), FALSE)

TestConnectivity(b) == CallTestConnectivity(b).value

\* The login bodies that carry an access_token, and the token each carries.
TokenBodies == {"token", "token2"}
TokenOf(body) == IF body = "token" THEN "access_token" ELSE "access_token2"

\* The try block of testAuthentication.
AuthenticationTry(b) ==
  LET o == AwaitRequest(b["login"]) IN
  IF o.raised THEN o
  ELSE IF ReadBody(o.value).raised THEN ReadBody(o.value)
  ELSE IF o.value.body \in TokenBodies
    THEN Returned([success |-> TRUE, token |-> TokenOf(o.value.body)])
  ELSE Returned([success |-> FALSE, error |-> "No token received"])

CallTestAuthentication(b) ==
  LET o == AuthenticationTry(b) IN
  TryCatch(o, [success |-> FALSE, error |-> IF o.raised THEN o.error ELSE "none"])

TestAuthentication(b) == CallTestAuthentication(b).value

\* Mutant: any answer axios accepts counts as the expected one.
ProbeTry_AnyAccepted(b, e, want) ==
  LET o == AwaitRequest(b[e]) IN
  IF o.raised THEN o
  ELSE Returned([results |-> [k \in {e} |-> TRUE], errors |-> <<>>])

\* The try block around a single request whose expected status is `want`.
ProbeTry(b, e, want) ==
  LET o == AwaitRequest(b[e]) IN
  IF o.raised THEN o
  ELSE Returned([results |-> [k \in {e} |-> o.value.status = want], errors |-> <<>>])

\* One try/catch block around a single request whose expected status is `want`.
CallProbe(b, e, want) ==
  TryCatch(ProbeTry(b, e, want), [results |-> [k \in {e} |-> FALSE], errors |-> <<e>>])

ProbeResult(b, e, want) == CallProbe(b, e, want).value

Join(p, q) == [results |-> Assign(p.results, q.results), errors |-> p.errors \o q.errors]

\* createResponse.data.data?.id is set: the get, update and delete probes follow.
HasId(r) == ~Throws(r) /\ r.body = "id"

\* The create request and the read of the id in its response, inside the outer try.
CreateTry(b) ==
  LET o == AwaitRequest(b["createApplication"]) IN
  IF o.raised THEN o
  ELSE IF ReadBody(o.value).raised THEN ReadBody(o.value)
  ELSE Returned([results |-> [createApplication |-> o.value.status = 201], errors |-> <<>>])

CallCreate(b) ==
  TryCatch(CreateTry(b),
           [results |-> [createApplication |-> FALSE], errors |-> <<"createApplication">>])

CreateBlock(b) ==
  LET r == b["createApplication"] IN
  IF Throws(r) THEN CallCreate(b).value
  ELSE IF r.body = "null"
    THEN CallCreate(b).value
  ELSE IF r.body = "id"
    THEN Join(Join(Join([results |-> [createApplication |-> r.status = 201], errors |-> <<>>],
                        ProbeResult(b, "getApplication", 200)),
                   ProbeResult(b, "updateApplication", 200)),
              ProbeResult(b, "deleteApplication", 200))
  ELSE [results |-> [createApplication |-> r.status = 201], errors |-> <<>>]

WithSuccess(p) == [success |-> EveryValue(p.results), results |-> p.results, errors |-> p.errors]

TestApplicationEndpoints(b) ==
  WithSuccess(Join(ProbeResult(b, "listApplications", 200), CreateBlock(b)))

TestDeploymentEndpoints(b) == WithSuccess(ProbeResult(b, "listDeployments", 200))

TestAIEndpoints(b) ==
  WithSuccess(Join(ProbeResult(b, "getInsights", 200), ProbeResult(b, "getRecommendations", 200)))

\* The try block of testGraphQLEndpoint.
GraphQLTry(b) ==
  LET o == AwaitRequest(b["graphql"]) IN
  IF o.raised THEN o
  ELSE IF ReadBody(o.value).raised THEN ReadBody(o.value)
  ELSE IF o.value.body = "errors"
    THEN Returned([success |-> FALSE, error |-> "errors[0].message"])
  ELSE Returned([success |-> o.value.status = 200])

CallTestGraphQLEndpoint(b) ==
  LET o == GraphQLTry(b) IN
  TryCatch(o, [success |-> FALSE, error |-> IF o.raised THEN o.error ELSE "none"])

TestGraphQLEndpoint(b) == CallTestGraphQLEndpoint(b).value

\* The success flag runFullIntegrationTest derives from the category results.
ApiOverallSuccess(results) ==
  /\ results.connectivity
  /\ results.authentication.success
  /\ results.applications.success
  /\ results.deployments.success

\* Mutant: the probe sequence also stops at a failed authentication probe.
RunFullIntegrationTest_StopAtAuth(b) ==
  IF ~TestConnectivity(b)
  THEN [success |-> FALSE,
        results |-> [connectivity |-> FALSE],
        summary |-> "Backend is not accessible"]
  ELSE IF ~TestAuthentication(b).success
  THEN [success |-> FALSE,
        results |-> [connectivity |-> TRUE, authentication |-> TestAuthentication(b)],
        summary |-> "Some integration tests failed"]
  ELSE LET results == [connectivity |-> TRUE,
                       authentication |-> TestAuthentication(b),
                       applications |-> TestApplicationEndpoints(b),
                       deployments |-> TestDeploymentEndpoints(b),
                       ai |-> TestAIEndpoints(b),
                       graphql |-> TestGraphQLEndpoint(b)]
       IN [success |-> ApiOverallSuccess(results),
           results |-> results,
           summary |-> IF ApiOverallSuccess(results) THEN "All integration tests passed"
                       ELSE "Some integration tests failed"]

RunFullIntegrationTest(b) ==
  IF ~TestConnectivity(b)
  THEN [success |-> FALSE,
        results |-> [connectivity |-> FALSE],
        summary |-> "Backend is not accessible"]
  ELSE LET results == [connectivity |-> TRUE,
                       authentication |-> TestAuthentication(b),
                       applications |-> TestApplicationEndpoints(b),
                       deployments |-> TestDeploymentEndpoints(b),
                       ai |-> TestAIEndpoints(b),
                       graphql |-> TestGraphQLEndpoint(b)]
       IN [success |-> ApiOverallSuccess(results),
           results |-> results,
           summary |-> IF ApiOverallSuccess(results) THEN "All integration tests passed"
                       ELSE "Some integration tests failed"]

\* -------------------------------------------------- IntegrationTestRunner
VARIABLES
  pc,               \* where the control flow of run() stands
  now,              \* the event-loop clock in ms, as far as the startup timers read it
  backendProcess,   \* this.backendProcess: "null" or "spawned"
  frontendProcess,  \* this.frontendProcess: "null" or "spawned"
  kills,            \* how often kill() was called on each process handle
  backendOutput,    \* the markers the accumulated backend stdout contains
  frontendOutput,   \* the markers the accumulated frontend stdout contains
  backendPromise,   \* the promise startBackend returns
  frontendPromise,  \* the promise startFrontend returns
  backendTimer,     \* the 30 s setTimeout of startBackend
  frontendTimer,    \* the 60 s setTimeout of startFrontend
  testResults,      \* this.testResults
  summary,          \* what generateReport printed: PASS/FAIL per phase, overallSuccess
  reportFile,       \* the contents written to integration-test-report.json, in order
  error,            \* the error caught by run()'s catch block
  exitCode,         \* the exit status of the node process, -1 while it runs
  log,              \* the steps of the run, in order
  failures,         \* the phases in which a command failed or an exception was raised
  diagnostics,      \* which stderr prefixes console.error has printed
  healthStatus      \* the status GET /health was answered with in runApiTests, 0 before

\* BackendApiTester, request by request
VARIABLES
  apiPc,            \* the request runFullIntegrationTest issues next
  backend,          \* how the backend answers each endpoint
  requests,         \* the requests sent so far, each with whether it carried a bearer token
  authToken,        \* this.authToken
  probe,            \* results and errors, the locals of the probe that is running
  apiResults,       \* results, the local of runFullIntegrationTest
  apiReturn,        \* what runFullIntegrationTest returned
  uncaught,         \* the exception that left a probe, "none" if none did
  logins            \* what each testAuthentication call returned, with the place of its request

\* waitForUrl
VARIABLES
  waitPc,           \* where the polling loop stands
  waitStart,        \* start, the time the loop was entered
  waitUrl           \* the url polled

\* useAuthStore
VARIABLES
  store,            \* the state of the store: user, token, isAuthenticated, isLoading, error
  answer            \* the last call of hasPermission or hasRole on this state and its result

testerVars ==
  <<apiPc, backend, requests, authToken, probe, apiResults, apiReturn, uncaught, logins>>
waitVars == <<waitPc, waitStart, waitUrl>>
storeVars == <<store, answer>>

runnerVars == <<pc, now, backendProcess, frontendProcess, kills, backendOutput, frontendOutput,
          backendPromise, frontendPromise, backendTimer, frontendTimer, testResults,
          summary, reportFile, error, exitCode, log, failures, diagnostics, healthStatus>>

vars == <<runnerVars, testerVars, waitVars, storeVars>>

NoPromise == [state |-> "none", reason |-> "none"]
Pending == [state |-> "pending", reason |-> "none"]
NoTimer == [armed |-> FALSE, deadline |-> 0, fired |-> FALSE]

\* resolve(): settles a pending promise; a settled promise stays as it is.
Resolve(p) == IF p.state = "pending" THEN [state |-> "resolved", reason |-> "none"] ELSE p

\* reject(new Error(reason)): likewise.
Reject(p, reason) == IF p.state = "pending" THEN [state |-> "rejected", reason |-> reason] ELSE p

\* The fields the constructor sets, and the ghosts of a run that has not begun.
RunnerFields ==
  /\ now = 0
  /\ backendProcess = "null"
  /\ frontendProcess = "null"
  /\ kills = [backend |-> 0, frontend |-> 0]
  /\ backendOutput = {}
  /\ frontendOutput = {}
  /\ backendPromise = NoPromise
  /\ frontendPromise = NoPromise
  /\ backendTimer = NoTimer
  /\ frontendTimer = NoTimer
  /\ testResults = [backend |-> EmptyObj, frontend |-> EmptyObj,
                    integration |-> EmptyObj, e2e |-> EmptyObj]
  /\ summary = EmptyObj
  /\ reportFile = <<>>
  /\ error = "none"
  /\ exitCode = -1
  /\ log = <<>>
  /\ failures = {}
  /\ diagnostics = {}
  /\ healthStatus = 0

\* The constructor; run() is about to be called.
RunnerInit == pc = "checkPrerequisites" /\ RunnerFields

\* No run is under way: the tester or the store is used on its own.
NoRunner == pc = "none" /\ RunnerFields

NoProbe == [results |-> EmptyObj, errors |-> <<>>]

\* No tester has been constructed.
TesterIdle ==
  /\ apiPc = "idle"
  /\ backend = [e \in Endpoints |-> Nominal(e)]
  /\ requests = <<>>
  /\ authToken = "undefined"
  /\ probe = NoProbe
  /\ apiResults = EmptyObj
  /\ apiReturn = EmptyObj
  /\ uncaught = "none"
  /\ logins = <<>>

\* waitForUrl has not been called.
WaitIdle ==
  /\ waitPc = "idle"
  /\ waitStart = 0
  /\ waitUrl = "none"

\* A user value and null, as the store holds them.
Null == [null |-> TRUE]

\* The state the store is created with.
InitialState ==
  [user |-> Null, token |-> "null", isAuthenticated |-> FALSE, isLoading |-> FALSE,
   error |-> "null"]

NoAnswer == [call |-> "none"]

StoreInit ==
  /\ store = InitialState
  /\ answer = NoAnswer

Init == RunnerInit /\ TesterIdle /\ WaitIdle /\ StoreInit

\* ---- the event loop
\* The await points of run() and of the steps it calls.
AwaitPoints ==
  {"awaitBackend", "awaitFrontend", "awaitApi", "awaitUnit", "awaitBackendUrl",
   "awaitFrontendUrl", "awaitPlaywright", "returned"}

\* A settled promise's continuation runs before any further event is taken.
ContinuationReady ==
  \/ pc = "awaitBackend" /\ backendPromise.state # "pending"
  \/ pc = "awaitFrontend" /\ frontendPromise.state # "pending"

\* The process is alive and its synchronous code has run to an await: the event loop
\* may deliver the next event.
EventLoopIdle == pc \in AwaitPoints /\ ~ContinuationReady

Alive(proc, p) == proc = "spawned" /\ kills[p] = 0

TimerPending(t) == t.armed /\ ~t.fired
TimerDue(t) == TimerPending(t) /\ now >= t.deadline

\* throw inside run()'s try block: control goes to the catch block.
Throw(msg) == pc' = "catch" /\ error' = msg

\* ---- readiness and timeout conditions
\* output.includes('Uvicorn running on')
BackendReady(output) == "Uvicorn running on" \in output

\* Mutant: either substring is enough.
FrontendReady_EitherMarker(output) == "Ready in" \in output \/ "3000" \in output

\* Mutant: the primary port is not looked for.
FrontendReady_MarkerOnly(output) == "Ready in" \in output

\* output.includes('Ready in') && output.includes('3000')
FrontendReady(output) == "Ready in" \in output /\ "3000" \in output

\* the condition under which the 30 s timer callback rejects
BackendTimedOut(output) == ~("Uvicorn running on" \in output)

\* the condition under which the 60 s timer callback rejects
FrontendTimedOut(output) == ~("Ready in" \in output)

\* ---- run(), step 1
CheckPrerequisites ==
  /\ pc = "checkPrerequisites"
  /\ \E backendDir \in BOOLEAN, requirements \in BOOLEAN, nodeModules \in BOOLEAN,
        npmInstall \in BOOLEAN :
       IF ~backendDir THEN Throw("Backend directory not found")
       ELSE IF ~requirements THEN Throw("Backend requirements.txt not found")
       ELSE IF ~nodeModules /\ ~npmInstall THEN Throw("npm install failed")
       ELSE pc' = "startBackend" /\ error' = error
  /\ log' = Append(log, "checkPrerequisites")
  /\ UNCHANGED <<now, backendProcess, frontendProcess, kills, backendOutput, frontendOutput,
                 backendPromise, frontendPromise, backendTimer, frontendTimer, testResults,
                 summary, reportFile, exitCode, failures, diagnostics, healthStatus,
                 testerVars, waitVars, storeVars>>

\* ---- run(), step 2: startBackend and the callbacks it registers
StartBackend ==
  /\ pc = "startBackend"
  /\ backendProcess' = "spawned"
  /\ backendOutput' = {}
  /\ backendPromise' = Pending
  /\ backendTimer' = [armed |-> TRUE, deadline |-> now + BackendStartupTimeoutMs, fired |-> FALSE]
  /\ log' = Append(log, "spawnBackend")
  /\ pc' = "awaitBackend"
  /\ UNCHANGED <<now, frontendProcess, kills, frontendOutput, frontendPromise, frontendTimer,
                 testResults, summary, reportFile, error, exitCode, failures, diagnostics, healthStatus,
                 testerVars, waitVars, storeVars>>

BackendStdout ==
  /\ EventLoopIdle
  /\ Alive(backendProcess, "backend")
  /\ \E chunk \in SUBSET BackendMarkers :
       /\ backendOutput' = backendOutput \cup chunk
       /\ backendPromise' = IF BackendReady(backendOutput') THEN Resolve(backendPromise)
                            ELSE backendPromise
  /\ UNCHANGED <<pc, now, backendProcess, frontendProcess, kills, frontendOutput,
                 frontendPromise, backendTimer, frontendTimer, testResults, summary,
                 reportFile, error, exitCode, log, failures, diagnostics, healthStatus,
                 testerVars, waitVars, storeVars>>

\* Mutant: output on stderr fails the startup.
BackendStderr_FailsStartup ==
  /\ EventLoopIdle
  /\ Alive(backendProcess, "backend")
  /\ diagnostics' = diagnostics \cup {"Backend error:"}
  /\ backendPromise' = Reject(backendPromise, "Backend error")
  /\ UNCHANGED <<pc, now, backendProcess, frontendProcess, kills, backendOutput, frontendOutput,
                 frontendPromise, backendTimer, frontendTimer, testResults,
                 summary, reportFile, error, exitCode, log, failures, healthStatus,
                 testerVars, waitVars, storeVars>>

\* The stderr handler of the backend process: console.error and nothing else.
BackendStderr ==
  /\ EventLoopIdle
  /\ Alive(backendProcess, "backend")
  /\ diagnostics' = diagnostics \cup {"Backend error:"}
  /\ UNCHANGED <<pc, now, backendProcess, frontendProcess, kills, backendOutput, frontendOutput,
                 backendPromise, frontendPromise, backendTimer, frontendTimer, testResults,
                 summary, reportFile, error, exitCode, log, failures, healthStatus,
                 testerVars, waitVars, storeVars>>

BackendError ==
  /\ EventLoopIdle
  /\ Alive(backendProcess, "backend")
  /\ backendPromise' = Reject(backendPromise, "Failed to start backend")
  /\ UNCHANGED <<pc, now, backendProcess, frontendProcess, kills, backendOutput,
                 frontendOutput, frontendPromise, backendTimer, frontendTimer, testResults,
                 summary, reportFile, error, exitCode, log, failures, diagnostics, healthStatus,
                 testerVars, waitVars, storeVars>>

BackendTimeout ==
  /\ EventLoopIdle
  /\ TimerDue(backendTimer)
  /\ backendTimer' = [backendTimer EXCEPT !.fired = TRUE]
  /\ backendPromise' = IF BackendTimedOut(backendOutput)
                       THEN Reject(backendPromise, "Backend failed to start within 30 seconds")
                       ELSE backendPromise
  /\ UNCHANGED <<pc, now, backendProcess, frontendProcess, kills, backendOutput,
                 frontendOutput, frontendPromise, frontendTimer, testResults, summary,
                 reportFile, error, exitCode, log, failures, diagnostics, healthStatus,
                 testerVars, waitVars, storeVars>>

\* Mutant: a rejected startBackend is not awaited, the run goes on to the frontend.
AfterStartBackend_IgnoreRejection ==
  /\ pc = "awaitBackend"
  /\ backendPromise.state # "pending"
  /\ pc' = "startFrontend"
  /\ log' = Append(log, "backendReady")
  /\ UNCHANGED <<now, backendProcess, frontendProcess, kills, backendOutput, frontendOutput,
                 backendPromise, frontendPromise, backendTimer, frontendTimer, testResults,
                 summary, reportFile, error, exitCode, failures, diagnostics, healthStatus,
                 testerVars, waitVars, storeVars>>

AfterStartBackend ==
  /\ pc = "awaitBackend"
  /\ backendPromise.state # "pending"
  /\ IF backendPromise.state = "resolved"
     THEN pc' = "startFrontend" /\ error' = error /\ log' = Append(log, "backendReady")
     ELSE Throw(backendPromise.reason) /\ log' = log
  /\ UNCHANGED <<now, backendProcess, frontendProcess, kills, backendOutput, frontendOutput,
                 backendPromise, frontendPromise, backendTimer, frontendTimer, testResults,
                 summary, reportFile, exitCode, failures, diagnostics, healthStatus,
                 testerVars, waitVars, storeVars>>

\* ---- run(), step 3: startFrontend and the callbacks it registers
StartFrontend ==
  /\ pc = "startFrontend"
  /\ frontendProcess' = "spawned"
  /\ frontendOutput' = {}
  /\ frontendPromise' = Pending
  /\ frontendTimer' = [armed |-> TRUE, deadline |-> now + FrontendStartupTimeoutMs, fired |-> FALSE]
  /\ log' = Append(log, "spawnFrontend")
  /\ pc' = "awaitFrontend"
  /\ UNCHANGED <<now, backendProcess, kills, backendOutput, backendPromise, backendTimer,
                 testResults, summary, reportFile, error, exitCode, failures, diagnostics, healthStatus,
                 testerVars, waitVars, storeVars>>

FrontendStdout ==
  /\ EventLoopIdle
  /\ Alive(frontendProcess, "frontend")
  /\ \E chunk \in SUBSET FrontendMarkers :
       /\ frontendOutput' = frontendOutput \cup chunk
       /\ frontendPromise' = IF FrontendReady(frontendOutput') THEN Resolve(frontendPromise)
                             ELSE frontendPromise
  /\ UNCHANGED <<pc, now, backendProcess, frontendProcess, kills, backendOutput,
                 backendPromise, backendTimer, frontendTimer, testResults, summary,
                 reportFile, error, exitCode, log, failures, diagnostics, healthStatus,
                 testerVars, waitVars, storeVars>>

FrontendStderr ==
  /\ EventLoopIdle
  /\ Alive(frontendProcess, "frontend")
  /\ diagnostics' = diagnostics \cup {"Frontend error:"}
  /\ UNCHANGED <<pc, now, backendProcess, frontendProcess, kills, backendOutput, frontendOutput,
                 backendPromise, frontendPromise, backendTimer, frontendTimer, testResults,
                 summary, reportFile, error, exitCode, log, failures, healthStatus,
                 testerVars, waitVars, storeVars>>

FrontendError ==
  /\ EventLoopIdle
  /\ Alive(frontendProcess, "frontend")
  /\ frontendPromise' = Reject(frontendPromise, "Failed to start frontend")
  /\ UNCHANGED <<pc, now, backendProcess, frontendProcess, kills, backendOutput,
                 frontendOutput, backendPromise, backendTimer, frontendTimer, testResults,
                 summary, reportFile, error, exitCode, log, failures, diagnostics, healthStatus,
                 testerVars, waitVars, storeVars>>

FrontendTimeout ==
  /\ EventLoopIdle
  /\ TimerDue(frontendTimer)
  /\ frontendTimer' = [frontendTimer EXCEPT !.fired = TRUE]
  /\ frontendPromise' = IF FrontendTimedOut(frontendOutput)
                        THEN Reject(frontendPromise, "Frontend failed to start within 60 seconds")
                        ELSE frontendPromise
  /\ UNCHANGED <<pc, now, backendProcess, frontendProcess, kills, backendOutput,
                 frontendOutput, backendPromise, backendTimer, testResults, summary,
                 reportFile, error, exitCode, log, failures, diagnostics, healthStatus,
                 testerVars, waitVars, storeVars>>

AfterStartFrontend ==
  /\ pc = "awaitFrontend"
  /\ frontendPromise.state # "pending"
  /\ IF frontendPromise.state = "resolved"
     THEN pc' = "runApiTests" /\ error' = error /\ log' = Append(log, "frontendReady")
     ELSE Throw(frontendPromise.reason) /\ log' = log
  /\ UNCHANGED <<now, backendProcess, frontendProcess, kills, backendOutput, frontendOutput,
                 backendPromise, frontendPromise, backendTimer, frontendTimer, testResults,
                 summary, reportFile, exitCode, failures, diagnostics, healthStatus,
                 testerVars, waitVars, storeVars>>

\* Time passes while the event loop waits; a due timer's callback runs before more passes.
Tick ==
  /\ EventLoopIdle
  /\ TimerPending(backendTimer) \/ TimerPending(frontendTimer)
  /\ ~TimerDue(backendTimer) /\ ~TimerDue(frontendTimer)
  /\ now' = now + TickMs
  /\ UNCHANGED <<pc, backendProcess, frontendProcess, kills, backendOutput, frontendOutput,
                 backendPromise, frontendPromise, backendTimer, frontendTimer, testResults,
                 summary, reportFile, error, exitCode, log, failures, diagnostics, healthStatus,
                 testerVars, waitVars, storeVars>>

\* ---- run(), step 4: runApiTests
Phases == {"integration", "frontend", "e2e"}

RunApiTests ==
  /\ pc = "runApiTests"
  /\ \E loaded \in BOOLEAN :
       IF loaded
       THEN /\ pc' = "awaitApi"
            /\ failures' = failures
            /\ log' = Append(log, "apiStart")
            /\ testResults' = testResults
       ELSE \* require() or the constructor threw: the catch block of runApiTests
            /\ failures' = failures \cup {"integration"}
            /\ pc' = "runFrontendTests"
            /\ log' = log \o <<"apiStart", "apiEnd">>
            /\ testResults' = [testResults EXCEPT
                 !.integration = [success |-> FALSE, error |-> "Cannot find module"]]
  /\ UNCHANGED <<now, backendProcess, frontendProcess, kills, backendOutput, frontendOutput,
                 backendPromise, frontendPromise, backendTimer, frontendTimer, summary,
                 reportFile, error, exitCode, diagnostics, healthStatus,
                 testerVars, waitVars, storeVars>>

\* Mutant: a failed API phase is rethrown to run().
ApiTestsDone_AbortOnFailure ==
  /\ pc = "awaitApi"
  /\ EventLoopIdle
  /\ \E b \in Scenarios :
       /\ testResults' = [testResults EXCEPT !.integration = RunFullIntegrationTest(b)]
       /\ failures' = IF RunFullIntegrationTest(b).success THEN failures
                      ELSE failures \cup {"integration"}
       /\ healthStatus' = b["health"].status
       /\ IF RunFullIntegrationTest(b).success
          THEN pc' = "runFrontendTests" /\ error' = error
          ELSE Throw("API integration tests failed")
  /\ log' = Append(log, "apiEnd")
  /\ UNCHANGED <<now, backendProcess, frontendProcess, kills, backendOutput, frontendOutput,
                 backendPromise, frontendPromise, backendTimer, frontendTimer, summary,
                 reportFile, exitCode, diagnostics,
                 testerVars, waitVars, storeVars>>

\* The promise of tester.runFullIntegrationTest() resolves: the result is stored.
ApiTestsDone ==
  /\ pc = "awaitApi"
  /\ EventLoopIdle
  /\ \E b \in Scenarios :
       /\ testResults' = [testResults EXCEPT !.integration = RunFullIntegrationTest(b)]
       /\ failures' = IF RunFullIntegrationTest(b).success THEN failures
                      ELSE failures \cup {"integration"}
       /\ healthStatus' = b["health"].status
  /\ log' = Append(log, "apiEnd")
  /\ pc' = "runFrontendTests"
  /\ UNCHANGED <<now, backendProcess, frontendProcess, kills, backendOutput, frontendOutput,
                 backendPromise, frontendPromise, backendTimer, frontendTimer, summary,
                 reportFile, error, exitCode, diagnostics,
                 testerVars, waitVars, storeVars>>

\* ---- run(), step 5: runFrontendTests
RunFrontendTests ==
  /\ pc = "runFrontendTests"
  /\ pc' = "awaitUnit"
  /\ log' = Append(log, "unitStart")
  /\ UNCHANGED <<now, backendProcess, frontendProcess, kills, backendOutput, frontendOutput,
                 backendPromise, frontendPromise, backendTimer, frontendTimer, testResults,
                 summary, reportFile, error, exitCode, failures, diagnostics, healthStatus,
                 testerVars, waitVars, storeVars>>

\* Mutant: the catch block of a phase is missing, success is stored either way.
PhaseOutcome_AlwaysPass(old, passed) == Assign(old, [success |-> TRUE])

\* What a phase stores when its command exits as `passed` says.
PhaseOutcome(old, passed) ==
  IF passed THEN Assign(old, [success |-> TRUE])
  ELSE [success |-> FALSE, error |-> "Command failed"]

UnitTestsDone ==
  /\ pc = "awaitUnit"
  /\ EventLoopIdle
  /\ \E passed \in BOOLEAN :
       /\ testResults' = [testResults EXCEPT !.frontend = PhaseOutcome(testResults.frontend, passed)]
       /\ failures' = IF passed THEN failures ELSE failures \cup {"frontend"}
  /\ log' = Append(log, "unitEnd")
  /\ pc' = "runE2ETests"
  /\ UNCHANGED <<now, backendProcess, frontendProcess, kills, backendOutput, frontendOutput,
                 backendPromise, frontendPromise, backendTimer, frontendTimer, summary,
                 reportFile, error, exitCode, diagnostics, healthStatus,
                 testerVars, waitVars, storeVars>>

\* ---- run(), step 6: runE2ETests
RunE2ETests ==
  /\ pc = "runE2ETests"
  /\ pc' = "awaitBackendUrl"
  /\ log' = Append(log, "e2eStart")
  /\ UNCHANGED <<now, backendProcess, frontendProcess, kills, backendOutput, frontendOutput,
                 backendPromise, frontendPromise, backendTimer, frontendTimer, testResults,
                 summary, reportFile, error, exitCode, failures, diagnostics, healthStatus,
                 testerVars, waitVars, storeVars>>

\* Mutant: the catch block of runE2ETests does not store a result.
E2EFailed_NotRecorded(msg, events) ==
  /\ testResults' = testResults
  /\ log' = log \o events \o <<"e2eEnd">>
  /\ failures' = failures \cup {"e2e"}
  /\ pc' = "generateReport"

\* The catch block of runE2ETests.
E2EFailed(msg, events) ==
  /\ testResults' = [testResults EXCEPT !.e2e = [success |-> FALSE, error |-> msg]]
  /\ log' = log \o events \o <<"e2eEnd">>
  /\ failures' = failures \cup {"e2e"}
  /\ pc' = "generateReport"

\* waitForUrl(backendUrl + '/health') returns on a 2xx answer or throws on its timeout.
WaitForBackendUrl ==
  /\ pc = "awaitBackendUrl"
  /\ EventLoopIdle
  /\ \E ready \in BOOLEAN :
       IF ready
       THEN pc' = "awaitFrontendUrl" /\ log' = Append(log, "backendUrlReady")
            /\ testResults' = testResults /\ failures' = failures
       ELSE E2EFailed("Service at backend not ready", <<>>)
  /\ UNCHANGED <<now, backendProcess, frontendProcess, kills, backendOutput, frontendOutput,
                 backendPromise, frontendPromise, backendTimer, frontendTimer, summary,
                 reportFile, error, exitCode, diagnostics, healthStatus,
                 testerVars, waitVars, storeVars>>

\* Mutant: the Playwright command is started whether or not the frontend url answered.
WaitForFrontendUrl_NoGate ==
  /\ pc = "awaitFrontendUrl"
  /\ EventLoopIdle
  /\ \E ready \in BOOLEAN :
       /\ pc' = "awaitPlaywright"
       /\ log' = IF ready THEN log \o <<"frontendUrlReady", "playwright">>
                 ELSE Append(log, "playwright")
       /\ testResults' = testResults /\ failures' = failures
  /\ UNCHANGED <<now, backendProcess, frontendProcess, kills, backendOutput, frontendOutput,
                 backendPromise, frontendPromise, backendTimer, frontendTimer, summary,
                 reportFile, error, exitCode, diagnostics, healthStatus,
                 testerVars, waitVars, storeVars>>

\* waitForUrl(frontendUrl), then the Playwright command is started.
WaitForFrontendUrl ==
  /\ pc = "awaitFrontendUrl"
  /\ EventLoopIdle
  /\ \E ready \in BOOLEAN :
       IF ready
       THEN pc' = "awaitPlaywright" /\ log' = log \o <<"frontendUrlReady", "playwright">>
            /\ testResults' = testResults /\ failures' = failures
       ELSE E2EFailed("Service at frontend not ready", <<>>)
  /\ UNCHANGED <<now, backendProcess, frontendProcess, kills, backendOutput, frontendOutput,
                 backendPromise, frontendPromise, backendTimer, frontendTimer, summary,
                 reportFile, error, exitCode, diagnostics, healthStatus,
                 testerVars, waitVars, storeVars>>

PlaywrightDone ==
  /\ pc = "awaitPlaywright"
  /\ EventLoopIdle
  /\ \E passed \in BOOLEAN :
       /\ testResults' = [testResults EXCEPT !.e2e = PhaseOutcome(testResults.e2e, passed)]
       /\ failures' = IF passed THEN failures ELSE failures \cup {"e2e"}
  /\ log' = Append(log, "e2eEnd")
  /\ pc' = "generateReport"
  /\ UNCHANGED <<now, backendProcess, frontendProcess, kills, backendOutput, frontendOutput,
                 backendPromise, frontendPromise, backendTimer, frontendTimer, summary,
                 reportFile, error, exitCode, diagnostics, healthStatus,
                 testerVars, waitVars, storeVars>>

\* ---- run(), step 7: generateReport
\* Mutant: a phase is printed as failed only if it recorded an error.
PhaseStatus_ByError(result) == IF "error" \in DOMAIN result THEN "FAIL" ELSE "PASS"

\* result.success ? 'PASS' : 'FAIL'
PhaseStatus(result) == IF Truthy(result, "success") THEN "PASS" ELSE "FAIL"

\* Mutant: some() in place of every().
OverallSuccess_Some(tr) == \E ph \in Phases : Truthy(tr[ph], "success")

\* results.every(r => r.result.success)
OverallSuccess(tr) == \A ph \in Phases : Truthy(tr[ph], "success")

\* JSON.stringify of a boolean: the literal true or false.
StringifyBoolean(v) == IF v THEN "true" ELSE "false"

\* JSON.stringify of the results of runFullIntegrationTest, as far as the
\* connectivity flag goes.
StringifyResults(results) ==
  [k \in DOMAIN results |->
     IF k = "connectivity" THEN StringifyBoolean(results[k]) ELSE results[k]]

\* JSON.stringify of one phase result, as far as its success flag and the connectivity
\* flag go: a boolean becomes a literal, a missing property stays missing.
StringifyResult(result) ==
  [k \in DOMAIN result |->
     CASE k = "success" -> StringifyBoolean(result[k])
       [] k = "results" -> StringifyResults(result[k])
       [] OTHER -> result[k]]

\* JSON.stringify(this.testResults, null, 2)
JsonStringify(tr) == [k \in DOMAIN tr |-> StringifyResult(tr[k])]

\* JSON.parse of a boolean literal.
ParseBoolean(text) == text = "true"

\* JSON.parse of the results of runFullIntegrationTest in the report.
ParseResults(text) ==
  [k \in DOMAIN text |-> IF k = "connectivity" THEN ParseBoolean(text[k]) ELSE text[k]]

\* JSON.parse of one phase result in the report.
ParseResult(text) ==
  [k \in DOMAIN text |->
     CASE k = "success" -> ParseBoolean(text[k])
       [] k = "results" -> ParseResults(text[k])
       [] OTHER -> text[k]]

\* JSON.parse of the contents of the report file.
JsonParse(text) == [k \in DOMAIN text |-> ParseResult(text[k])]

GenerateReport ==
  /\ pc = "generateReport"
  /\ summary' = [integration |-> PhaseStatus(testResults.integration),
                 frontend |-> PhaseStatus(testResults.frontend),
                 e2e |-> PhaseStatus(testResults.e2e),
                 overallSuccess |-> OverallSuccess(testResults)]
  /\ \E written \in BOOLEAN :
       IF written
       THEN /\ reportFile' = Append(reportFile, JsonStringify(testResults))
            /\ log' = log \o <<"generateReport", "reportWritten">>
            /\ pc' = "finally"
            /\ error' = error
       ELSE /\ reportFile' = reportFile
            /\ log' = Append(log, "generateReport")
            /\ Throw("writeFileSync failed")
  /\ UNCHANGED <<now, backendProcess, frontendProcess, kills, backendOutput, frontendOutput,
                 backendPromise, frontendPromise, backendTimer, frontendTimer, testResults,
                 exitCode, failures, diagnostics, healthStatus,
                 testerVars, waitVars, storeVars>>

\* ---- run(): catch and finally
\* process.exit(1) ends the process inside the catch block: the finally block of
\* run() is not executed and no further event is delivered.
Catch ==
  /\ pc = "catch"
  /\ exitCode' = 1
  /\ pc' = "exited"
  /\ log' = Append(log, "exit")
  /\ UNCHANGED <<now, backendProcess, frontendProcess, kills, backendOutput, frontendOutput,
                 backendPromise, frontendPromise, backendTimer, frontendTimer, testResults,
                 summary, reportFile, error, failures, diagnostics, healthStatus,
                 testerVars, waitVars, storeVars>>

\* kill() on each handle that is set.
Kill(k, p, proc) == IF proc # "null" THEN [k EXCEPT ![p] = @ + 1] ELSE k

Cleanup ==
  /\ pc = "finally"
  /\ kills' = Kill(Kill(kills, "backend", backendProcess), "frontend", frontendProcess)
  /\ log' = Append(log, "cleanup")
  /\ pc' = "returned"
  /\ UNCHANGED <<now, backendProcess, frontendProcess, backendOutput, frontendOutput,
                 backendPromise, frontendPromise, backendTimer, frontendTimer, testResults,
                 summary, reportFile, error, exitCode, failures, diagnostics, healthStatus,
                 testerVars, waitVars, storeVars>>

\* Mutant: the exit status follows the test results.
NaturalExit_StatusFromTests ==
  /\ pc = "returned"
  /\ ~TimerPending(backendTimer) /\ ~TimerPending(frontendTimer)
  /\ exitCode' = IF Truthy(summary, "overallSuccess") THEN 0 ELSE 1
  /\ pc' = "exited"
  /\ log' = Append(log, "exit")
  /\ UNCHANGED <<now, backendProcess, frontendProcess, kills, backendOutput, frontendOutput,
                 backendPromise, frontendPromise, backendTimer, frontendTimer, testResults,
                 summary, reportFile, error, failures, diagnostics, healthStatus,
                 testerVars, waitVars, storeVars>>

\* run() has returned; node exits with status 0 once no timer is left to fire.
NaturalExit ==
  /\ pc = "returned"
  /\ ~TimerPending(backendTimer) /\ ~TimerPending(frontendTimer)
  /\ exitCode' = 0
  /\ pc' = "exited"
  /\ log' = Append(log, "exit")
  /\ UNCHANGED <<now, backendProcess, frontendProcess, kills, backendOutput, frontendOutput,
                 backendPromise, frontendPromise, backendTimer, frontendTimer, testResults,
                 summary, reportFile, error, failures, diagnostics, healthStatus,
                 testerVars, waitVars, storeVars>>

Next ==
  \/ CheckPrerequisites
  \/ StartBackend \/ BackendStdout \/ BackendStderr \/ BackendError \/ BackendTimeout \/ AfterStartBackend
  \/ StartFrontend \/ FrontendStdout \/ FrontendStderr \/ FrontendError \/ FrontendTimeout \/ AfterStartFrontend
  \/ Tick
  \/ RunApiTests \/ ApiTestsDone
  \/ RunFrontendTests \/ UnitTestsDone
  \/ RunE2ETests \/ WaitForBackendUrl \/ WaitForFrontendUrl \/ PlaywrightDone
  \/ GenerateReport
  \/ Catch \/ Cleanup \/ NaturalExit

Spec == Init /\ [][Next]_vars

\* The steps of run() and of the continuations it awaits: the event loop runs a
\* continuation that is ready, and a command or request that was started ends.
Progress ==
  \/ CheckPrerequisites
  \/ StartBackend \/ AfterStartBackend
  \/ StartFrontend \/ AfterStartFrontend
  \/ RunApiTests \/ ApiTestsDone
  \/ RunFrontendTests \/ UnitTestsDone
  \/ RunE2ETests \/ WaitForBackendUrl \/ WaitForFrontendUrl \/ PlaywrightDone
  \/ GenerateReport
  \/ Catch \/ Cleanup \/ NaturalExit

\* Time passes and a timer that is due fires.
Fairness ==
  /\ WF_vars(Progress)
  /\ WF_vars(Tick)
  /\ WF_vars(BackendTimeout)
  /\ WF_vars(FrontendTimeout)

SpecFair == Spec /\ Fairness

\* ------------------------------------- BackendApiTester, request by request
\* Mutant: a request is sent a second time.
Send_Retried(e) ==
  requests \o <<[endpoint |-> e, authorization |-> authToken # "undefined"],
                [endpoint |-> e, authorization |-> authToken # "undefined"]>>

\* The request interceptor: a request carries the bearer token iff this.authToken is set.
Send(e) == Append(requests, [endpoint |-> e, authorization |-> authToken # "undefined"])

\* An exception leaves the probe that is running and with it runFullIntegrationTest.
Escape(o) ==
  /\ apiPc' = "threw"
  /\ uncaught' = o.error
  /\ UNCHANGED <<authToken, probe, apiResults, apiReturn>>

\* The applications probe returns; the deployments probe is next.
ApplicationsReturn(p) ==
  /\ apiResults' = Assign(apiResults, [applications |-> WithSuccess(p)])
  /\ probe' = NoProbe
  /\ apiPc' = "listDeployments"

\* runFullIntegrationTest returns.
ApiReturn(success, results, summaryText) ==
  /\ apiReturn' = [success |-> success, results |-> results, summary |-> summaryText]
  /\ apiPc' = "returned"

\* Mutant: the login probe is left out of the sequence.
ApiConnectivity_SkipLogin ==
  /\ apiPc = "connectivity"
  /\ requests' = Send("health")
  /\ LET o == CallTestConnectivity(backend) IN
     IF o.raised THEN Escape(o)
     ELSE /\ apiResults' = [connectivity |-> o.value]
          /\ IF o.value
             THEN apiPc' = "listApplications" /\ apiReturn' = apiReturn
             ELSE ApiReturn(FALSE, apiResults', "Backend is not accessible")
          /\ UNCHANGED <<authToken, probe, uncaught>>
  /\ UNCHANGED <<backend, logins, runnerVars, waitVars, storeVars>>

\* results.connectivity = await this.testConnectivity(), and the early return.
ApiConnectivity ==
  /\ apiPc = "connectivity"
  /\ requests' = Send("health")
  /\ LET o == CallTestConnectivity(backend) IN
     IF o.raised THEN Escape(o)
     ELSE /\ apiResults' = [connectivity |-> o.value]
          /\ IF o.value
             THEN apiPc' = "authentication" /\ apiReturn' = apiReturn
             ELSE ApiReturn(FALSE, apiResults', "Backend is not accessible")
          /\ UNCHANGED <<authToken, probe, uncaught>>
  /\ UNCHANGED <<backend, logins, runnerVars, waitVars, storeVars>>

\* Mutant: a failed authentication probe ends the sequence.
ApiAuthentication_StopOnFailure ==
  /\ apiPc = "authentication"
  /\ requests' = Send("login")
  /\ LET o == CallTestAuthentication(backend) IN
     IF o.raised THEN Escape(o) /\ logins' = logins
     ELSE /\ apiResults' = Assign(apiResults, [authentication |-> o.value])
          /\ authToken' = IF o.value.success THEN o.value.token ELSE authToken
          /\ logins' = Append(logins, [request |-> Len(requests'), result |-> o.value])
          /\ IF o.value.success
             THEN apiPc' = "listApplications" /\ apiReturn' = apiReturn
             ELSE ApiReturn(FALSE, apiResults', "Some integration tests failed")
          /\ UNCHANGED <<probe, uncaught>>
  /\ UNCHANGED <<backend, runnerVars, waitVars, storeVars>>

\* results.authentication = await this.testAuthentication(...)
ApiAuthentication ==
  /\ apiPc = "authentication"
  /\ requests' = Send("login")
  /\ LET o == CallTestAuthentication(backend) IN
     IF o.raised THEN Escape(o) /\ logins' = logins
     ELSE /\ apiResults' = Assign(apiResults, [authentication |-> o.value])
          /\ authToken' = IF o.value.success THEN o.value.token ELSE authToken
          /\ logins' = Append(logins, [request |-> Len(requests'), result |-> o.value])
          /\ apiPc' = "listApplications"
          /\ UNCHANGED <<probe, apiReturn, uncaught>>
  /\ UNCHANGED <<backend, runnerVars, waitVars, storeVars>>

\* testApplicationEndpoints: GET /api/v1/applications
ApiListApplications ==
  /\ apiPc = "listApplications"
  /\ requests' = Send("listApplications")
  /\ LET o == CallProbe(backend, "listApplications", 200) IN
     IF o.raised THEN Escape(o)
     ELSE /\ probe' = Join(NoProbe, o.value)
          /\ apiPc' = "createApplication"
          /\ UNCHANGED <<authToken, apiResults, apiReturn, uncaught>>
  /\ UNCHANGED <<backend, logins, runnerVars, waitVars, storeVars>>

\* testApplicationEndpoints: POST /api/v1/applications and the test of the id
ApiCreateApplication ==
  /\ apiPc = "createApplication"
  /\ requests' = Send("createApplication")
  /\ LET o == CallCreate(backend) IN
     IF o.raised THEN Escape(o)
     ELSE /\ IF HasId(backend["createApplication"])
             THEN /\ probe' = Join(probe, o.value)
                  /\ apiPc' = "getApplication"
                  /\ apiResults' = apiResults
             ELSE ApplicationsReturn(Join(probe, o.value))
          /\ UNCHANGED <<authToken, apiReturn, uncaught>>
  /\ UNCHANGED <<backend, logins, runnerVars, waitVars, storeVars>>

\* Mutant: a failed get ends the applications probe, update and delete are left out.
ApiGetApplication_AbortOnFailure ==
  /\ apiPc = "getApplication"
  /\ requests' = Send("getApplication")
  /\ LET o == CallProbe(backend, "getApplication", 200) IN
     IF o.raised THEN Escape(o)
     ELSE /\ IF o.value.results["getApplication"]
             THEN /\ probe' = Join(probe, o.value)
                  /\ apiPc' = "updateApplication"
                  /\ apiResults' = apiResults
             ELSE ApplicationsReturn(Join(probe, o.value))
          /\ UNCHANGED <<authToken, apiReturn, uncaught>>
  /\ UNCHANGED <<backend, logins, runnerVars, waitVars, storeVars>>

\* testApplicationEndpoints: GET /api/v1/applications/:id
ApiGetApplication ==
  /\ apiPc = "getApplication"
  /\ requests' = Send("getApplication")
  /\ LET o == CallProbe(backend, "getApplication", 200) IN
     IF o.raised THEN Escape(o)
     ELSE /\ probe' = Join(probe, o.value)
          /\ apiPc' = "updateApplication"
          /\ UNCHANGED <<authToken, apiResults, apiReturn, uncaught>>
  /\ UNCHANGED <<backend, logins, runnerVars, waitVars, storeVars>>

\* testApplicationEndpoints: PUT /api/v1/applications/:id
ApiUpdateApplication ==
  /\ apiPc = "updateApplication"
  /\ requests' = Send("updateApplication")
  /\ LET o == CallProbe(backend, "updateApplication", 200) IN
     IF o.raised THEN Escape(o)
     ELSE /\ probe' = Join(probe, o.value)
          /\ apiPc' = "deleteApplication"
          /\ UNCHANGED <<authToken, apiResults, apiReturn, uncaught>>
  /\ UNCHANGED <<backend, logins, runnerVars, waitVars, storeVars>>

\* testApplicationEndpoints: DELETE /api/v1/applications/:id, then the return
ApiDeleteApplication ==
  /\ apiPc = "deleteApplication"
  /\ requests' = Send("deleteApplication")
  /\ LET o == CallProbe(backend, "deleteApplication", 200) IN
     IF o.raised THEN Escape(o)
     ELSE /\ ApplicationsReturn(Join(probe, o.value))
          /\ UNCHANGED <<authToken, apiReturn, uncaught>>
  /\ UNCHANGED <<backend, logins, runnerVars, waitVars, storeVars>>

\* results.deployments = await this.testDeploymentEndpoints()
ApiListDeployments ==
  /\ apiPc = "listDeployments"
  /\ requests' = Send("listDeployments")
  /\ LET o == CallProbe(backend, "listDeployments", 200) IN
     IF o.raised THEN Escape(o)
     ELSE /\ apiResults' = Assign(apiResults, [deployments |-> WithSuccess(o.value)])
          /\ apiPc' = "getInsights"
          /\ UNCHANGED <<authToken, probe, apiReturn, uncaught>>
  /\ UNCHANGED <<backend, logins, runnerVars, waitVars, storeVars>>

\* testAIEndpoints: GET /api/v1/ai/insights
ApiGetInsights ==
  /\ apiPc = "getInsights"
  /\ requests' = Send("getInsights")
  /\ LET o == CallProbe(backend, "getInsights", 200) IN
     IF o.raised THEN Escape(o)
     ELSE /\ probe' = Join(NoProbe, o.value)
          /\ apiPc' = "getRecommendations"
          /\ UNCHANGED <<authToken, apiResults, apiReturn, uncaught>>
  /\ UNCHANGED <<backend, logins, runnerVars, waitVars, storeVars>>

\* testAIEndpoints: GET /api/v1/ai/recommendations, then the return
ApiGetRecommendations ==
  /\ apiPc = "getRecommendations"
  /\ requests' = Send("getRecommendations")
  /\ LET o == CallProbe(backend, "getRecommendations", 200) IN
     IF o.raised THEN Escape(o)
     ELSE /\ apiResults' = Assign(apiResults, [ai |-> WithSuccess(Join(probe, o.value))])
          /\ probe' = NoProbe
          /\ apiPc' = "graphql"
          /\ UNCHANGED <<authToken, apiReturn, uncaught>>
  /\ UNCHANGED <<backend, logins, runnerVars, waitVars, storeVars>>

\* results.graphql = await this.testGraphQLEndpoint(), overallSuccess and the return
ApiGraphQL ==
  /\ apiPc = "graphql"
  /\ requests' = Send("graphql")
  /\ LET o == CallTestGraphQLEndpoint(backend) IN
     IF o.raised THEN Escape(o)
     ELSE /\ apiResults' = Assign(apiResults, [graphql |-> o.value])
          /\ ApiReturn(ApiOverallSuccess(apiResults'), apiResults',
                       IF ApiOverallSuccess(apiResults') THEN "All integration tests passed"
                       ELSE "Some integration tests failed")
          /\ UNCHANGED <<authToken, probe, uncaught>>
  /\ UNCHANGED <<backend, logins, runnerVars, waitVars, storeVars>>

\* A tester that is about to run runFullIntegrationTest against some backend.
InitApi ==
  /\ NoRunner
  /\ WaitIdle
  /\ StoreInit
  /\ logins = <<>>
  /\ apiPc = "connectivity"
  /\ backend \in ApiScenarios
  /\ requests = <<>>
  /\ authToken = "undefined"
  /\ probe = NoProbe
  /\ apiResults = EmptyObj
  /\ apiReturn = EmptyObj
  /\ uncaught = "none"

NextApi ==
  \/ ApiConnectivity \/ ApiAuthentication
  \/ ApiListApplications \/ ApiCreateApplication
  \/ ApiGetApplication \/ ApiUpdateApplication \/ ApiDeleteApplication
  \/ ApiListDeployments
  \/ ApiGetInsights \/ ApiGetRecommendations
  \/ ApiGraphQL

SpecApi == InitApi /\ [][NextApi]_vars

\* ---- the probes of one tester called in any order
\* What POST /auth/login may answer from one call to the next.
LoginAnswers == Responses("login") \cup {[status |-> 200, body |-> "token2"]}

\* Mutant: a failed login clears the stored token.
TesterLogin_ClearsOnFailure ==
  /\ apiPc = "ready"
  /\ Len(requests) < MaxRequests
  /\ requests' = Send("login")
  /\ \E r \in LoginAnswers :
       LET o == CallTestAuthentication([backend EXCEPT !["login"] = r]) IN
       /\ authToken' = IF o.value.success THEN o.value.token ELSE "undefined"
       /\ logins' = Append(logins, [request |-> Len(requests'), result |-> o.value])
  /\ UNCHANGED <<apiPc, backend, probe, apiResults, apiReturn, uncaught,
                 runnerVars, waitVars, storeVars>>

\* A call of testAuthentication.
TesterLogin ==
  /\ apiPc = "ready"
  /\ Len(requests) < MaxRequests
  /\ requests' = Send("login")
  /\ \E r \in LoginAnswers :
       LET o == CallTestAuthentication([backend EXCEPT !["login"] = r]) IN
       /\ authToken' = IF o.value.success THEN o.value.token ELSE authToken
       /\ logins' = Append(logins, [request |-> Len(requests'), result |-> o.value])
  /\ UNCHANGED <<apiPc, backend, probe, apiResults, apiReturn, uncaught,
                 runnerVars, waitVars, storeVars>>

\* A request of any other probe: none of them writes this.authToken.
TesterRequest ==
  /\ apiPc = "ready"
  /\ Len(requests) < MaxRequests
  /\ \E e \in Endpoints \ {"login"} : requests' = Send(e)
  /\ UNCHANGED <<apiPc, backend, authToken, probe, apiResults, apiReturn, uncaught, logins,
                 runnerVars, waitVars, storeVars>>

\* A freshly constructed tester.
InitTester ==
  /\ NoRunner
  /\ WaitIdle
  /\ StoreInit
  /\ apiPc = "ready"
  /\ backend = [e \in Endpoints |-> Nominal(e)]
  /\ requests = <<>>
  /\ authToken = "undefined"
  /\ probe = NoProbe
  /\ apiResults = EmptyObj
  /\ apiReturn = EmptyObj
  /\ uncaught = "none"
  /\ logins = <<>>

NextTester == TesterLogin \/ TesterRequest

SpecTester == InitTester /\ [][NextTester]_vars

\* A run of the runner, or a tester used on its own.
InitRunOrTester == Init \/ InitApi

NextRunOrTester == Next \/ NextApi

SpecRunOrTester == InitRunOrTester /\ [][NextRunOrTester]_vars

\* --------------------------------------------------------------- waitForUrl
\* How long one polled request may take before it fails or is answered.
RequestDurations == {d \in 0..RequestTimeoutMs : d % WaitStepMs = 0}

\* while (Date.now() - start < timeout), and the throw after the loop
WaitCheck ==
  /\ waitPc = "check"
  /\ waitPc' = IF now - waitStart < WaitTimeoutMs THEN "request" ELSE "thrown"
  /\ UNCHANGED <<now, waitStart, waitUrl>>

\* await axios.get(url, { timeout: 5000 }): answered with 2xx before the request
\* timeout, or failed no later than at the request timeout.
WaitRequest ==
  /\ waitPc = "request"
  /\ \E d \in RequestDurations, ok \in BOOLEAN :
       /\ ok => d < RequestTimeoutMs
       /\ now' = now + d
       /\ waitPc' = IF ok THEN "returned" ELSE "sleep"
  /\ UNCHANGED <<waitStart, waitUrl>>

\* await new Promise(resolve => setTimeout(resolve, 1000))
WaitSleep ==
  /\ waitPc = "sleep"
  /\ now' = now + PollIntervalMs
  /\ waitPc' = "check"
  /\ UNCHANGED <<waitStart, waitUrl>>

WaitFrame ==
  UNCHANGED <<pc, backendProcess, frontendProcess, kills, backendOutput, frontendOutput,
              backendPromise, frontendPromise, backendTimer, frontendTimer, testResults,
              summary, reportFile, error, exitCode, log, failures, diagnostics, healthStatus,
              testerVars, storeVars>>

\* waitForUrl has just been called for one of the two urls of waitForServices.
InitWait ==
  /\ RunnerInit
  /\ TesterIdle
  /\ StoreInit
  /\ waitPc = "check"
  /\ waitStart = now
  /\ waitUrl \in {"http://localhost:8000/health", "http://localhost:3000"}

NextWait ==
  \/ WaitCheck /\ WaitFrame
  \/ WaitRequest /\ WaitFrame
  \/ WaitSleep /\ WaitFrame

SpecWait == InitWait /\ [][NextWait]_vars

\* ------------------------------------------------------------- useAuthStore
\* The arguments the store's actions and queries are called with.
Tokens == {"t1", "t2"}
Errors == {"null", "e1"}
Resources == {"applications", "deployments"}
ActionNames == {"read", "write"}
RoleNames == {"admin", "developer", "viewer"}

\* A Permission of the types package.
Permission(resource, actions) == [resource |-> resource, actions |-> actions]

\* Users of the types package: a role and a list of permissions. The last one
\* names a resource twice and grants the action only in the second entry.
Users ==
  { [id |-> "u1", role |-> "admin",
     permissions |-> <<Permission("applications", <<"read", "write">>),
                       Permission("deployments", <<"read">>)>>],
    [id |-> "u2", role |-> "viewer",
     permissions |-> <<Permission("applications", <<"read">>)>>],
    [id |-> "u3", role |-> "developer", permissions |-> <<>>],
    [id |-> "u4", role |-> "viewer",
     permissions |-> <<Permission("applications", <<>>),
                       Permission("applications", <<"write">>)>>] }

\* actions.includes(action)
RECURSIVE Includes(_, _)
Includes(actions, action) ==
  IF actions = <<>> THEN FALSE
  ELSE IF Head(actions) = action THEN TRUE
  ELSE Includes(Tail(actions), action)

\* Mutant: only the first permission on the resource is looked at.
RECURSIVE PermissionsSome_FirstResource(_, _, _)
PermissionsSome_FirstResource(permissions, resource, action) ==
  IF permissions = <<>> THEN FALSE
  ELSE IF Head(permissions).resource = resource
    THEN Includes(Head(permissions).actions, action)
  ELSE PermissionsSome_FirstResource(Tail(permissions), resource, action)

\* user.permissions.some(p => p.resource === resource && p.actions.includes(action))
RECURSIVE PermissionsSome(_, _, _)
PermissionsSome(permissions, resource, action) ==
  IF permissions = <<>> THEN FALSE
  ELSE IF Head(permissions).resource = resource /\ Includes(Head(permissions).actions, action)
    THEN TRUE
  ELSE PermissionsSome(Tail(permissions), resource, action)

\* set(partial) merges the partial state into the store; the call is recorded.
Set(partial, call, args) ==
  /\ store' = Assign(store, partial)
  /\ answer' = [call |-> call, args |-> args]
  /\ UNCHANGED <<runnerVars, testerVars, waitVars>>

\* A query returns without writing the store.
Return(call, args, result) ==
  /\ answer' = [call |-> call, args |-> args, result |-> result]
  /\ UNCHANGED <<store, runnerVars, testerVars, waitVars>>

SetUser(user) ==
  Set([user |-> user, isAuthenticated |-> TRUE, error |-> "null"], "setUser", <<user>>)

\* Mutant: storing a token also marks the session authenticated.
SetToken_Authenticates(token) ==
  Set([token |-> token, isAuthenticated |-> TRUE], "setToken", <<token>>)

SetToken(token) == Set([token |-> token], "setToken", <<token>>)

ClearAuth ==
  Set([user |-> Null, token |-> "null", isAuthenticated |-> FALSE, error |-> "null"],
      "clearAuth", <<>>)

SetLoading(isLoading) == Set([isLoading |-> isLoading], "setLoading", <<isLoading>>)

\* Mutant: an error leaves the loading flag as it was.
SetError_KeepsLoading(err) == Set([error |-> err], "setError", <<err>>)

SetError(err) == Set([error |-> err, isLoading |-> FALSE], "setError", <<err>>)

HasPermission(resource, action) ==
  Return("hasPermission", <<resource, action>>,
         IF store.user = Null THEN FALSE
         ELSE PermissionsSome(store.user.permissions, resource, action))

HasRole(role) ==
  Return("hasRole", <<role>>,
         IF store.user = Null THEN FALSE ELSE store.user.role = role)

InitAuth == NoRunner /\ TesterIdle /\ WaitIdle /\ StoreInit

NextAuth ==
  \/ \E user \in Users : SetUser(user)
  \/ \E token \in Tokens : SetToken(token)
  \/ ClearAuth
  \/ \E isLoading \in BOOLEAN : SetLoading(isLoading)
  \/ \E err \in Errors : SetError(err)
  \/ \E resource \in Resources, action \in ActionNames : HasPermission(resource, action)
  \/ \E role \in RoleNames : HasRole(role)

SpecAuth == InitAuth /\ [][NextAuth]_vars

\* ------------------------------------------------------------ properties
Count(ev) == Cardinality({i \in 1..Len(log) : log[i] = ev})
Happened(ev) == Count(ev) > 0
IsPrefix(a, b) == Len(a) <= Len(b) /\ SubSeq(b, 1, Len(a)) = a

Categories == {"connectivity", "authentication", "applications", "deployments", "ai", "graphql"}

PhaseEvents == <<"apiStart", "apiEnd", "unitStart", "unitEnd", "e2eStart", "e2eEnd">>

RunSteps ==
  <<"checkPrerequisites", "spawnBackend", "backendReady", "spawnFrontend", "frontendReady">>
  \o PhaseEvents \o <<"generateReport", "reportWritten", "cleanup">>

InSeq(x, sq) == \E i \in 1..Len(sq) : sq[i] = x
IsPhaseEvent(x) == InSeq(x, PhaseEvents)
IsRunStep(x) == InSeq(x, RunSteps)

\* The run has ended: the node process has exited.
Ended == pc = "exited"

\* C1: every run that ends has called cleanup() exactly once, whether it completed or
\* was aborted by a failing checkPrerequisites, startBackend, startFrontend or
\* generateReport.
C1_CleanupExactlyOnce ==
  /\ Count("cleanup") <= 1
  /\ Ended => Count("cleanup") = 1

\* C2: when a run has ended, kill() has been requested exactly once on every process
\* that was spawned.
C2_SpawnedProcessesKilledOnce ==
  Ended => /\ backendProcess = "spawned" => kills["backend"] = 1
           /\ frontendProcess = "spawned" => kills["frontend"] = 1

\* C3: once the startup timer of startBackend or startFrontend has fired, the promise
\* of that call is settled: resolved on the readiness signal or rejected.
C3_StartupSettlesAtTimeout ==
  /\ backendTimer.fired => backendPromise.state # "pending"
  /\ frontendTimer.fired => frontendPromise.state # "pending"

\* C4 as stated: whenever runFullIntegrationTest has returned its results, all six probe
\* categories have a recorded result, whatever the outcome of the earlier categories.
C4_EveryCategoryRecorded ==
  "results" \in DOMAIN testResults.integration =>
    DOMAIN testResults.integration.results = Categories

\* C4 as amended: whenever runFullIntegrationTest has returned, a successful
\* connectivity probe means all six categories are recorded, whatever the outcomes of
\* authentication, applications, deployments and AI; a failed connectivity probe means
\* connectivity alone is recorded.
C4_CategoriesAfterConnectivity ==
  "results" \in DOMAIN testResults.integration =>
    LET results == testResults.integration.results IN
    IF results.connectivity THEN DOMAIN results = Categories
    ELSE DOMAIN results = {"connectivity"} /\ ~testResults.integration.success

\* a run in which authentication failed and the later categories are recorded
C4_Witness ==
  /\ "results" \in DOMAIN testResults.integration
  /\ testResults.integration.results.connectivity
  /\ ~testResults.integration.results.authentication.success
  /\ "graphql" \in DOMAIN testResults.integration.results

\* C5: after both startups the phases run one after another in the order API, unit,
\* E2E; a phase in which something failed or threw is recorded with success = false,
\* and the later phases and generateReport still run.
C5_PhasesSequentialAndIsolated ==
  /\ IsPrefix(SelectSeq(log, IsPhaseEvent), PhaseEvents)
  /\ Happened("apiStart") => Happened("frontendReady")
  /\ \A ph \in failures : "success" \in DOMAIN testResults[ph] /\ testResults[ph].success = FALSE
  /\ (Happened("frontendReady") /\ pc \in {"finally", "catch", "returned", "exited"}) =>
       /\ SelectSeq(log, IsPhaseEvent) = PhaseEvents
       /\ Count("generateReport") = 1

\* a run in which all three phases failed and the report was still written
C5_Witness == failures = Phases /\ Len(reportFile) = 1 /\ pc = "returned"

PrerequisiteErrors ==
  {"Backend directory not found", "Backend requirements.txt not found", "npm install failed"}

NothingAfterStartup ==
  /\ SelectSeq(log, IsPhaseEvent) = <<>>
  /\ ~Happened("generateReport")
  /\ reportFile = <<>>
  /\ Count("spawnBackend") <= 1
  /\ Count("spawnFrontend") <= 1

\* C6: after a failed checkPrerequisites no process is ever spawned; after a failed
\* startBackend the frontend is never spawned; after either, or a failed startFrontend,
\* no test phase starts, no startup is repeated and no report is written.
C6_FatalFailuresAbort ==
  /\ error \in PrerequisiteErrors =>
       NothingAfterStartup /\ backendProcess = "null" /\ frontendProcess = "null"
  /\ backendPromise.state = "rejected" =>
       NothingAfterStartup /\ frontendProcess = "null" /\ ~Happened("spawnFrontend")
  /\ frontendPromise.state = "rejected" => NothingAfterStartup

\* a run ended by the frontend's startup timeout, the backend having been spawned
C6_Witness ==
  /\ Ended
  /\ frontendPromise = [state |-> "rejected", reason |-> "Frontend failed to start within 60 seconds"]
  /\ backendProcess = "spawned"

\* C7: the steps of a run occur in the order prerequisites, backend spawned, backend
\* ready, frontend spawned, frontend ready, phases, report, cleanup; the frontend is
\* spawned only after the backend's readiness signal, a phase starts only after the
\* frontend's, and generateReport is called only after the three phases have finished.
C7_StepOrder ==
  /\ IsPrefix(SelectSeq(log, IsRunStep), RunSteps)
  /\ Happened("spawnFrontend") => BackendMarkers \subseteq backendOutput
  /\ Happened("apiStart") => FrontendMarkers \subseteq frontendOutput
  /\ Happened("generateReport") =>
       Happened("apiEnd") /\ Happened("unitEnd") /\ Happened("e2eEnd")

\* a run that went through every step
C7_Witness == SelectSeq(log, IsRunStep) = RunSteps

\* C8: a run that has ended has a non-zero exit status exactly if an error reached the
\* catch block of run(); with prerequisites, both startups and the report write
\* succeeding, the status is 0 whichever phases failed.
C8_ExitStatus ==
  /\ ~Ended => exitCode = -1
  /\ Ended => /\ exitCode \in {0, 1}
              /\ exitCode # 0 <=> error # "none"
              /\ Happened("reportWritten") => exitCode = 0

\* a run that ended with status 0 although all three phases failed
C8_Witness == Ended /\ exitCode = 0 /\ failures = Phases

\* C9: the overall-success flag generateReport computes is true exactly if the
\* API-integration, frontend-test and E2E-test results all have success true.
C9_OverallSuccessIsConjunction ==
  "overallSuccess" \in DOMAIN summary =>
    (summary.overallSuccess <=>
       /\ Truthy(testResults.integration, "success")
       /\ Truthy(testResults.frontend, "success")
       /\ Truthy(testResults.e2e, "success"))

\* a report over two passed phases and a failed E2E phase
C9_Witness ==
  /\ "overallSuccess" \in DOMAIN summary
  /\ ~summary.overallSuccess
  /\ Truthy(testResults.integration, "success")
  /\ Truthy(testResults.frontend, "success")
  /\ failures = {"e2e"}

\* C10: the report file is written at most once, only after the three phases have
\* finished, and each of its integration, frontend and e2e entries then carries a
\* boolean success, true only for a phase that ran.
C10_ReportAuthoritative ==
  /\ Len(reportFile) <= 1
  /\ Len(reportFile) = 1 =>
       /\ SelectSeq(log, IsPhaseEvent) = PhaseEvents
       /\ \A ph \in Phases :
            /\ "success" \in DOMAIN reportFile[1][ph]
            /\ reportFile[1][ph].success \in {"true", "false"}
            /\ reportFile[1][ph].success = "true" => ph \notin failures

\* a written report that holds a failed and a passed phase
C10_Witness ==
  /\ Len(reportFile) = 1
  /\ reportFile[1].frontend.success = "true"
  /\ reportFile[1].e2e.success = "false"

\* C11: when the polled url never answers with 2xx, waitForUrl fails with its timeout
\* error no later than the configured timeout plus one poll interval after it was
\* called, also when each request takes up to its 5 s request timeout to fail.
C11_FailsWithinOnePollInterval ==
  waitPc = "thrown" => now - waitStart <= WaitTimeoutMs + PollIntervalMs

\* The place of the first occurrence of a step in the log, 0 if it did not happen.
Index(ev) == IF Happened(ev) THEN CHOOSE i \in 1..Len(log) : log[i] = ev /\ \A j \in 1..(i - 1) : log[j] # ev
             ELSE 0

\* The errors waitForUrl throws at its timeout, as runE2ETests records them.
WaitTimeoutErrors == {"Service at backend not ready", "Service at frontend not ready"}

\* One of the two waits of waitForServices timed out.
WaitTimedOut ==
  "error" \in DOMAIN testResults.e2e /\ testResults.e2e.error \in WaitTimeoutErrors

\* C12: the Playwright command is started only after waitForUrl has returned for the
\* backend /health url and then for the frontend url; when either wait times out the
\* command is not started, the E2E phase is recorded with success false and the run
\* goes on to generateReport.
C12_PlaywrightGatedOnReadiness ==
  /\ Happened("playwright") =>
       /\ 0 < Index("backendUrlReady")
       /\ Index("backendUrlReady") < Index("frontendUrlReady")
       /\ Index("frontendUrlReady") < Index("playwright")
  /\ Happened("frontendUrlReady") => 0 < Index("backendUrlReady")
                                      /\ Index("backendUrlReady") < Index("frontendUrlReady")
  /\ WaitTimedOut =>
       /\ ~Happened("playwright")
       /\ testResults.e2e.success = FALSE
       /\ pc = "generateReport" \/ Happened("generateReport")

C12_Witness ==
  /\ WaitTimedOut
  /\ testResults.e2e.error = "Service at frontend not ready"
  /\ Happened("backendUrlReady")
  /\ Happened("generateReport")

\* ---- properties of the tester
\* The category of runFullIntegrationTest under which the result of a request is filed.
CategoryOf(e) ==
  CASE e = "health" -> "connectivity"
    [] e = "login" -> "authentication"
    [] e \in {"listApplications", "createApplication", "getApplication",
              "updateApplication", "deleteApplication"} -> "applications"
    [] e = "listDeployments" -> "deployments"
    [] e \in {"getInsights", "getRecommendations"} -> "ai"
    [] OTHER -> "graphql"

\* The probe that is running holds a result for the request.
InProbe(e) == e \in DOMAIN probe.results

\* The result of the request to endpoint e has been recorded.
HasOutcome(e) ==
  CASE CategoryOf(e) \in {"connectivity", "authentication", "graphql"} ->
         CategoryOf(e) \in DOMAIN apiResults
    [] OTHER -> \/ InProbe(e)
                \/ /\ CategoryOf(e) \in DOMAIN apiResults
                   /\ e \in DOMAIN apiResults[CategoryOf(e)].results

\* The success value recorded for the request to endpoint e.
Outcome(e) ==
  CASE e = "health" -> apiResults.connectivity
    [] e \in {"login", "graphql"} -> apiResults[CategoryOf(e)].success
    [] OTHER -> IF InProbe(e) THEN probe.results[e]
                ELSE apiResults[CategoryOf(e)].results[e]

Requested(e) == \E i \in 1..Len(requests) : requests[i].endpoint = e

\* The probes that read a property of the response body.
BodyReaders == {"login", "createApplication", "graphql"}

\* The request fails: a transport error, a timeout or a status outside 2xx, or a
\* body that cannot be read where the probe reads it.
Failing(e) == Throws(backend[e]) \/ (e \in BodyReaders /\ backend[e].body = "null")

\* C13: no probe throws to its caller: whatever the backend answers, every request
\* sent ends in a recorded result, and a failing request in a false success value.
C13_ProbesNeverThrow ==
  /\ uncaught = "none"
  /\ apiPc # "threw"
  /\ \A e \in Endpoints :
       /\ Requested(e) => HasOutcome(e)
       /\ HasOutcome(e) /\ Failing(e) => Outcome(e) = FALSE

C13_Witness ==
  /\ apiPc = "returned"
  /\ backend["createApplication"].body = "null"
  /\ Throws(backend["graphql"])
  /\ Requested("graphql")

\* The login request fails or its response has no token field.
AuthFailed == Failing("login") \/ backend["login"].body # "token"

\* The requests of the probes that follow the authentication probe whatever it returns.
AfterLogin ==
  {"listApplications", "createApplication", "listDeployments", "getInsights",
   "getRecommendations", "graphql"}

\* C14: when the authentication probe fails, authentication.success is false and the
\* application, deployment, AI and GraphQL probes are still attempted.
C14_ProbesAttemptedAfterFailedAuth ==
  AuthFailed =>
    /\ HasOutcome("login") => Outcome("login") = FALSE
    /\ apiPc = "returned" /\ HasOutcome("login") =>
         /\ apiReturn.results.authentication.success = FALSE
         /\ \A e \in AfterLogin : Requested(e) /\ HasOutcome(e)

C14_Witness ==
  /\ apiPc = "returned"
  /\ backend["login"] = [status |-> 200, body |-> "empty"]
  /\ "graphql" \in DOMAIN apiReturn.results

\* The status a probe compares the status of its response with.
ExpectedStatus(e) == IF e = "createApplication" THEN 201 ELSE 200

\* C16: every probe, the authentication probe among them, reports success if and
\* only if the status of its response is the expected one (200, or 201 for create)
\* and, for GraphQL, the response body has no errors.
C16_SuccessIffExpectedStatus ==
  \A e \in Endpoints :
    HasOutcome(e) =>
      (Outcome(e) = TRUE <=>
         /\ backend[e].status = ExpectedStatus(e)
         /\ e = "graphql" => backend[e].body # "errors")

\* C16, amended: the probes other than authentication report success if and only if
\* the status is the expected one, the body can be read where the probe reads it and,
\* for GraphQL, it has no errors; the authentication probe reports success if and
\* only if the login request is answered within 2xx with a token in the body.
C16_SuccessClassification ==
  \A e \in Endpoints :
    HasOutcome(e) =>
      (Outcome(e) = TRUE <=>
         IF e = "login"
         THEN ~Throws(backend[e]) /\ backend[e].body = "token"
         ELSE /\ backend[e].status = ExpectedStatus(e)
              /\ e \in BodyReaders => backend[e].body # "null"
              /\ e = "graphql" => backend[e].body # "errors")

C16_Witness ==
  /\ apiPc = "returned"
  /\ backend["login"] = [status |-> 201, body |-> "token"]
  /\ HasOutcome("login") /\ Outcome("login") = TRUE
  /\ backend["listApplications"].status = 201
  /\ HasOutcome("listApplications") /\ Outcome("listApplications") = FALSE

\* The requests that are to carry the bearer token.
TokenEndpoints == Endpoints \ {"health", "login"}

\* C18: the health request is sent before the login request and the login request,
\* with its result recorded, before any request to the application, deployment,
\* analytics or GraphQL endpoints.
C18_LoginBeforeTokenRequests ==
  \A i \in 1..Len(requests) :
    /\ requests[i].endpoint = "login" => i = 2 /\ requests[1].endpoint = "health"
    /\ requests[i].endpoint \in TokenEndpoints =>
         /\ \E j \in 1..(i - 1) : requests[j].endpoint = "login"
         /\ HasOutcome("login")

C18_Witness ==
  /\ apiPc = "returned"
  /\ Len(requests) = Cardinality(Endpoints)
  /\ requests[Len(requests)].endpoint = "graphql"

\* The steps of run() from which generateReport is reached unless a step hangs.
OnTheWayToReport ==
  {"runFrontendTests", "awaitUnit", "runE2ETests", "awaitBackendUrl", "awaitFrontendUrl",
   "awaitPlaywright", "generateReport"}

\* C15: when GET /health is answered with 500, the API phase is recorded as failed
\* with connectivity false and the run is not aborted by it: the frontend-test and E2E
\* phases run, generateReport is reached and the written report shows connectivity
\* false.
C15_Health500Recorded ==
  healthStatus = 500 =>
    /\ testResults.integration.success = FALSE
    /\ testResults.integration.results = [connectivity |-> FALSE]
    /\ "integration" \in failures
    /\ pc \in OnTheWayToReport \/ Happened("generateReport")
    /\ Happened("generateReport") => Happened("unitEnd") /\ Happened("e2eEnd")
    /\ Len(reportFile) > 0 =>
         /\ reportFile[1].integration.success = "false"
         /\ reportFile[1].integration.results.connectivity = "false"

C15_Witness ==
  /\ healthStatus = 500
  /\ Happened("unitEnd") /\ Happened("e2eEnd")
  /\ Len(reportFile) = 1
  /\ reportFile[1].integration.results.connectivity = "false"

\* C17: the promise of startFrontend is resolved only when the accumulated stdout
\* holds both 'Ready in' and '3000'; with one of the two it stays unresolved, and it
\* is resolved once both have arrived, in whatever chunks and order.
C17_ResolvesOnBothMarkers ==
  /\ frontendPromise.state = "resolved" => FrontendMarkers \subseteq frontendOutput
  /\ frontendPromise.state = "pending" => ~(FrontendMarkers \subseteq frontendOutput)

C17_Witness ==
  /\ pc = "awaitFrontend"
  /\ frontendPromise.state = "resolved"
  /\ frontendOutput = FrontendMarkers
  /\ ~frontendTimer.fired

\* C19: the report file round-trips: parsed back, the written JSON gives for each of
\* the phases integration, frontend and e2e the boolean success that generateReport
\* printed as PASS or FAIL.
C19_ReportRoundTrips ==
  \A i \in 1..Len(reportFile) :
    /\ JsonParse(reportFile[i]) = testResults
    /\ \A ph \in Phases :
         /\ "success" \in DOMAIN JsonParse(reportFile[i])[ph]
         /\ JsonParse(reportFile[i])[ph].success = TRUE <=> summary[ph] = "PASS"

C19_Witness ==
  /\ Len(reportFile) = 1
  /\ JsonParse(reportFile[1]).integration.success = FALSE
  /\ JsonParse(reportFile[1]).e2e.success = TRUE
  /\ summary.integration = "FAIL" /\ summary.e2e = "PASS"

\* C20: output on stderr never changes the outcome of startup: a stderr event prints
\* its diagnostic and leaves the promises, the timers, the accumulated stdout and
\* every other part of the run as they were, wherever it falls between stdout events.
C20_StderrChangesNothingElse ==
  [][diagnostics' # diagnostics =>
       UNCHANGED <<pc, now, backendProcess, frontendProcess, kills, backendOutput,
                   frontendOutput, backendPromise, frontendPromise, backendTimer,
                   frontendTimer, testResults, summary, reportFile, error, exitCode, log,
                   failures, healthStatus, testerVars, waitVars, storeVars>>]_vars

C20_Witness ==
  /\ diagnostics = {"Backend error:", "Frontend error:"}
  /\ backendPromise.state = "resolved"
  /\ frontendPromise.state = "resolved"
  /\ pc = "awaitFrontend"

\* How often endpoint e has been requested.
RequestCount(e) == Cardinality({i \in 1..Len(requests) : requests[i].endpoint = e})

\* C21: nothing is retried: a run spawns the backend process at most once and the
\* frontend process at most once, and one runFullIntegrationTest requests every
\* endpoint at most once, also after a failure.
C21_NoRetry ==
  /\ Count("spawnBackend") <= 1
  /\ Count("spawnFrontend") <= 1
  /\ \A e \in Endpoints : RequestCount(e) <= 1

C21_Witness ==
  /\ apiPc = "returned"
  /\ Throws(backend["listApplications"])
  /\ Throws(backend["getInsights"])
  /\ \A e \in Endpoints : RequestCount(e) = 1

\* Both startup promises were resolved: each process printed its readiness signal
\* before its timeout.
StartupSucceeded ==
  backendPromise.state = "resolved" /\ frontendPromise.state = "resolved"

\* C22: when the backend prints its banner before its 30 s timeout and the frontend
\* then prints 'Ready in' and '3000' before its 60 s timeout, the run goes on to
\* runApiTests, the other phases, the report and, in the end, cleanup.
C22_ReadyStartupReachesCleanup == StartupSucceeded ~> Happened("cleanup")

\* The states of a promise whose outcome has been decided.
Settled == {"resolved", "rejected"}

\* C23: the outcome of startBackend and of startFrontend is decided by the first of
\* readiness signal, 'error' event and timeout to occur, and once: a decided outcome
\* never changes, nothing decides it after the timeout has occurred, and output
\* arriving on stdout changes no step of the run.
C23_FirstEventDecidesOnce ==
  [][/\ backendPromise.state \in Settled => backendPromise' = backendPromise
     /\ frontendPromise.state \in Settled => frontendPromise' = frontendPromise
     /\ backendTimer.fired => backendPromise' = backendPromise
     /\ frontendTimer.fired => frontendPromise' = frontendPromise
     /\ backendOutput' # backendOutput \/ frontendOutput' # frontendOutput =>
          UNCHANGED <<pc, log, error, exitCode, testResults>>]_vars

\* The success of one category of results, connectivity being a boolean itself.
CategorySuccess(results, c) ==
  IF c = "connectivity" THEN results[c] ELSE results[c].success

\* C24: runFullIntegrationTest returns success true only if every category that was
\* attempted succeeded, the AI/analytics and GraphQL categories among them.
C24_SuccessMeansEveryCategory ==
  apiPc = "returned" /\ apiReturn.success =>
    \A c \in DOMAIN apiReturn.results : CategorySuccess(apiReturn.results, c)

\* The requests of testApplicationEndpoints.
CrudEndpoints ==
  {"listApplications", "createApplication", "getApplication", "updateApplication",
   "deleteApplication"}

\* testApplicationEndpoints has returned.
ApplicationsDone == "applications" \in DOMAIN apiResults

\* C25: testApplicationEndpoints returns success true only if all five CRUD probes
\* were attempted and each was answered with its expected status; a create response
\* without an id cannot give success true.
C25_ApplicationsSuccessMeansAllFive ==
  ApplicationsDone /\ apiResults.applications.success =>
    /\ DOMAIN apiResults.applications.results = CrudEndpoints
    /\ \A e \in CrudEndpoints : Requested(e) /\ backend[e].status = ExpectedStatus(e)
    /\ HasId(backend["createApplication"])

\* The endpoint requested right before the i-th request, "none" for the first.
Previous(i) == IF i > 1 THEN requests[i - 1].endpoint ELSE "none"

\* C26: when the create response has an id, the get, update and delete requests for
\* it are each sent once, in that order, and the delete is sent also when the get or
\* the update failed.
C26_GetUpdateDeleteAfterCreate ==
  /\ \A i \in 1..Len(requests) :
       /\ requests[i].endpoint = "getApplication" =>
            Previous(i) = "createApplication" /\ HasId(backend["createApplication"])
       /\ requests[i].endpoint = "updateApplication" => Previous(i) = "getApplication"
       /\ requests[i].endpoint = "deleteApplication" => Previous(i) = "updateApplication"
  /\ ApplicationsDone /\ HasId(backend["createApplication"]) =>
       \A e \in {"getApplication", "updateApplication", "deleteApplication"} :
         RequestCount(e) = 1 /\ HasOutcome(e)

C26_Witness ==
  /\ apiPc = "returned"
  /\ HasId(backend["createApplication"])
  /\ Throws(backend["getApplication"])
  /\ Throws(backend["updateApplication"])
  /\ RequestCount("deleteApplication") = 1

\* The testAuthentication calls that returned success before the i-th request was sent.
SuccessfulLogins(i) ==
  {k \in 1..Len(logins) : logins[k].request < i /\ logins[k].result.success}

\* The last of a non-empty set of calls.
Latest(calls) == CHOOSE k \in calls : \A j \in calls : j <= k

\* C27: whatever probes are called in whatever order, a request carries the bearer
\* header if and only if an earlier testAuthentication call returned success, and the
\* stored token is that of the most recent successful login: only such a login sets
\* it and a failed login does not clear it.
C27_BearerIffEarlierLogin ==
  /\ \A i \in 1..Len(requests) :
       requests[i].authorization <=> SuccessfulLogins(i) # {}
  /\ authToken = IF SuccessfulLogins(Len(requests) + 1) = {} THEN "undefined"
                 ELSE logins[Latest(SuccessfulLogins(Len(requests) + 1))].result.token

C27_Witness ==
  /\ Len(requests) = 3 /\ Len(logins) = 2
  /\ logins[1].result.success /\ logins[1].request = 1
  /\ ~logins[2].result.success /\ logins[2].request = 2
  /\ requests[3].endpoint = "graphql" /\ requests[3].authorization
  /\ authToken = "access_token"

\* ---- properties of the auth store
\* C28: after any sequence of setUser, setToken, clearAuth, setLoading and setError
\* from the initial state, isAuthenticated is true exactly when user is not null.
C28_AuthenticatedIffUser == store.isAuthenticated <=> store.user # Null

C28_Witness ==
  /\ answer.call = "setError"
  /\ store.user \in Users /\ store.isAuthenticated
  /\ store.token = "null" /\ store.error = "e1"

\* Some permission of the user has exactly that resource and lists that action.
Grants(user, resource, action) ==
  \E i \in DOMAIN user.permissions :
    /\ user.permissions[i].resource = resource
    /\ \E j \in DOMAIN user.permissions[i].actions : user.permissions[i].actions[j] = action

\* C29: hasPermission(resource, action) returns true exactly when a user is set and
\* some permission of it has that resource and lists that action; hasRole(role)
\* returns true exactly when a user is set and its role is role; called in the
\* initial state or right after clearAuth, both return false.
C29_QueriesAnswerFromUser ==
  [][/\ answer'.call = "hasPermission" =>
          answer'.result = (/\ store.user # Null
                            /\ Grants(store.user, answer'.args[1], answer'.args[2]))
     /\ answer'.call = "hasRole" =>
          answer'.result = (store.user # Null /\ store.user.role = answer'.args[1])
     /\ answer'.call \in {"hasPermission", "hasRole"} /\ answer.call \in {"none", "clearAuth"} =>
          ~answer'.result]_vars

C29_Witness ==
  /\ answer.call = "hasPermission"
  /\ answer.args = <<"applications", "write">>
  /\ answer.result
  /\ store.user \in Users /\ store.user.id = "u4"

\* C30: each action of the store changes only its own fields: setToken only token;
\* setLoading only isLoading; setError error, with isLoading false; setUser user,
\* isAuthenticated true and error null, keeping token and isLoading; clearAuth user,
\* token, isAuthenticated and error reset, keeping isLoading.
C30_ActionsChangeOnlyTheirFields ==
  [][/\ answer'.call = "setToken" =>
          store' = [store EXCEPT !.token = answer'.args[1]]
     /\ answer'.call = "setLoading" =>
          store' = [store EXCEPT !.isLoading = answer'.args[1]]
     /\ answer'.call = "setError" =>
          store' = [store EXCEPT !.error = answer'.args[1], !.isLoading = FALSE]
     /\ answer'.call = "setUser" =>
          store' = [store EXCEPT !.user = answer'.args[1], !.isAuthenticated = TRUE,
                                 !.error = "null"]
     /\ answer'.call = "clearAuth" =>
          store' = [store EXCEPT !.user = Null, !.token = "null",
                                 !.isAuthenticated = FALSE, !.error = "null"]]_vars

C30_Witness ==
  /\ answer.call = "clearAuth"
  /\ store.isLoading /\ store.user = Null /\ store.token = "null"
  /\ ~store.isAuthenticated /\ store.error = "null"

====================================================================
